---- MODULE Spec2Model ----
(***************************************************************************)
(* The circle application backend: the write handlers of the Users,        *)
(* Circles, CircleNews and Followed routers over the relational tables     *)
(* User, Circle, CircleNews, Followed and UserSchedule.                    *)
(*                                                                         *)
(* Every handler runs one database session.  A handler is one action; the  *)
(* outcome of each flush/commit is chosen by the persistence layer (it     *)
(* succeeds, raises IntegrityError, or raises another exception).  The     *)
(* response of the last handler step is kept in resp.                      *)
(***************************************************************************)
EXTENDS Integers, Sequences, FiniteSets

VARIABLES users, circles, news, followed, schedules, nextId, inflight, resp

vars == <<users, circles, news, followed, schedules, nextId, inflight, resp>>

\* the persisted tables
tables == <<users, circles, news, followed, schedules>>

-----------------------------------------------------------------------------
\* Bounds of the model: caps on the autoincrement ids of each table and on
\* the number of requests in flight at once.
MaxUsers == 2
MaxCircles == 2
MaxNews == 1
MaxFollowed == 2
MaxSchedules == 2
MaxInFlight == 2

Slots == 1..MaxInFlight

\* The ids that requests name in paths and payloads (an id may match no row).
UserIds == 1..2
CircleIds == 1..2
NewsIds == 1..MaxNews

\* Optional fields: None, and a field the payload leaves unset
\* (model_dump(exclude_unset=True) drops it).
None == "None"
Unset == "UNSET"
UnsetPass == 0 - 1
UnsetName == <<"UNSET">>

-----------------------------------------------------------------------------
\* Request payloads (schemas.py), drawn from small sets.

\* UserCreate
UserCreatePayloads ==
  { [name |-> "ann", email |-> "e1", login_id |-> "login1", login_pass |-> 1],
    [name |-> "bob", email |-> "e2", login_id |-> "login2", login_pass |-> 2] }

\* UserUpdate: every field optional
UserUpdatePayloads ==
  { [name |-> Unset, email |-> Unset, login_id |-> Unset, login_pass |-> UnsetPass],
    [name |-> Unset, email |-> "e1", login_id |-> Unset, login_pass |-> 2] }

\* CircleCreate: names are character sequences, so that strip() acts on them;
\* description is optional and defaults to None
CircleCreatePayloads ==
  { [name |-> <<"a">>, description |-> None],
    [name |-> <<"a", " ">>, description |-> None],
    [name |-> <<"b">>, description |-> None] }

\* CircleUpdate: every field optional
CircleUpdatePayloads ==
  { [name |-> <<"a">>, description |-> Unset],
    [name |-> <<"b">>, description |-> Unset],
    [name |-> UnsetName, description |-> "d"] }

\* CircleNewsCreate
NewsFields ==
  { [title |-> "t1", date |-> 1, content |-> "", has_photo |-> FALSE, photo_url |-> None],
    [title |-> "t2", date |-> 2, content |-> "c", has_photo |-> TRUE, photo_url |-> "url"] }

CircleNewsCreatePayloads ==
  { [circle_id |-> c, title |-> f.title, date |-> f.date, content |-> f.content,
     has_photo |-> f.has_photo, photo_url |-> f.photo_url] : c \in CircleIds, f \in NewsFields }

\* FollowedCreate: user_id is supplied by the client
FollowedCreatePayloads ==
  { [user_id |-> u, circle_id |-> c] : u \in UserIds, c \in CircleIds }

-----------------------------------------------------------------------------
\* The persistence layer.

\* what a flush or commit can do
Outcomes == {"ok", "integrity", "error"}

\* hash_pw: one-way, never the plaintext
hash_pw(p) == 100 + p

\* str.strip() on a character sequence
RECURSIVE lstrip(_)
lstrip(s) == IF s # <<>> /\ Head(s) = " " THEN lstrip(Tail(s)) ELSE s

RECURSIVE rstrip(_)
rstrip(s) == IF s # <<>> /\ s[Len(s)] = " " THEN rstrip(SubSeq(s, 1, Len(s) - 1)) ELSE s

strip(s) == rstrip(lstrip(s))

\* unique constraints of User: email, login_id
UserUnique(us) ==
  \A a, b \in us : a.id # b.id => a.email # b.email /\ a.login_id # b.login_id

\* unique constraint of Circle: name
CircleUnique(cs) ==
  \A a, b \in cs : a.id # b.id => a.name # b.name

\* the reference left unenforced
NewsCircleFK_off(ns, cs) == TRUE

\* CircleNews.circle_id references an existing Circle
NewsCircleFK(ns, cs) ==
  \A n \in ns : \E c \in cs : c.id = n.circle_id

\* Followed: the (user_id, circle_id) pair is kept unique by the handler's
\* duplicate lookup; the table itself carries no constraint on it
FollowedConstraints(fs) == TRUE

\* the outcome of a commit: a violated constraint raises IntegrityError,
\* otherwise the persistence layer decides
CommitOutcome(o, constraintsHold) == IF constraintsHold THEN o ELSE "integrity"

\* a request slot with no create_Followed request in flight
Idle == [user_id |-> 0, circle_id |-> 0]

\* the response of a handler step
Resp(op, status, exc, fail, id, id2, user, new) ==
  [op |-> op, status |-> status, exc |-> exc, fail |-> fail,
   id |-> id, id2 |-> id2, user |-> user, new |-> new]

Init ==
  /\ users = {}
  /\ circles = {}
  /\ news = {}
  /\ followed = {}
  /\ schedules = {}
  /\ nextId = [user |-> 1, circle |-> 1, news |-> 1, followed |-> 1, schedule |-> 1]
  /\ inflight = [s \in Slots |-> Idle]
  /\ resp = Resp("none", 0, "none", "none", 0, 0, 0, 0)

-----------------------------------------------------------------------------
\* Users router

create_user(payload) ==
  /\ nextId.user <= MaxUsers
  /\ \E o \in Outcomes :
       LET user == [id |-> nextId.user, name |-> payload.name, email |-> payload.email,
                    login_id |-> payload.login_id, login_pass |-> hash_pw(payload.login_pass)]
           out == CommitOutcome(o, UserUnique(users \cup {user}))
       IN  IF out = "ok"
           THEN /\ users' = users \cup {user}
                /\ nextId' = [nextId EXCEPT !.user = @ + 1]
                /\ resp' = Resp("create_user", 201, "none", "none", 0, 0, 0, user.id)
                /\ UNCHANGED <<circles, news, followed, schedules, inflight>>
           ELSE IF out = "integrity"
           THEN /\ resp' = Resp("create_user", 409, "http", out, 0, 0, 0, 0)
                /\ UNCHANGED <<tables, nextId, inflight>>
           ELSE /\ resp' = Resp("create_user", 500, "uncaught", out, 0, 0, 0, 0)
                /\ UNCHANGED <<tables, nextId, inflight>>

\* a lookup that forgets the primary key
db_get_any(table, id) == table

\* db.get(Model, id): the rows of a table with that primary key (none or one)
db_get(table, id) == {r \in table : r.id = id}

\* model_dump(exclude_unset=True) applied to a row by setattr; login_pass is
\* hashed on the way
apply_user_update(user, payload) ==
  [id |-> user.id,
   name |-> IF payload.name # Unset THEN payload.name ELSE user.name,
   email |-> IF payload.email # Unset THEN payload.email ELSE user.email,
   login_id |-> IF payload.login_id # Unset THEN payload.login_id ELSE user.login_id,
   login_pass |-> IF payload.login_pass # UnsetPass
                  THEN hash_pw(payload.login_pass) ELSE user.login_pass]

\* the payload sets no field at all
user_update_empty(payload) ==
  /\ payload.name = Unset
  /\ payload.email = Unset
  /\ payload.login_id = Unset
  /\ payload.login_pass = UnsetPass

update_user(user_id, payload) ==
    LET found == db_get(users, user_id) IN
    IF found = {}
    THEN /\ resp' = Resp("update_user", 404, "http", "none", user_id, 0, 0, 0)
         /\ UNCHANGED <<tables, nextId, inflight>>
    ELSE IF user_update_empty(payload)
    THEN \* nothing to update: the row is returned as it is
         /\ resp' = Resp("update_user", 200, "none", "none", user_id, 0, 0, 0)
         /\ UNCHANGED <<tables, nextId, inflight>>
    ELSE \E o \in Outcomes :
         LET user == CHOOSE u \in found : TRUE
             updated == apply_user_update(user, payload)
             out == CommitOutcome(o, UserUnique((users \ {user}) \cup {updated}))
         IN  IF out = "ok"
             THEN /\ users' = (users \ {user}) \cup {updated}
                  /\ resp' = Resp("update_user", 200, "none", "none", user_id, 0, 0, 0)
                  /\ UNCHANGED <<circles, news, followed, schedules, nextId, inflight>>
             ELSE IF out = "integrity"
             THEN /\ resp' = Resp("update_user", 409, "http", out, user_id, 0, 0, 0)
                  /\ UNCHANGED <<tables, nextId, inflight>>
             ELSE /\ resp' = Resp("update_user", 500, "http", out, user_id, 0, 0, 0)
                  /\ UNCHANGED <<tables, nextId, inflight>>

delete_user(user_id) ==
    LET found == db_get(users, user_id) IN
    IF found = {}
    THEN /\ resp' = Resp("delete_user", 404, "http", "none", user_id, 0, 0, 0)
         /\ UNCHANGED <<tables, nextId, inflight>>
    ELSE \E o \in Outcomes :
         IF o = "ok"
         THEN /\ users' = users \ found
              /\ resp' = Resp("delete_user", 204, "none", "none", user_id, 0, 0, 0)
              /\ UNCHANGED <<circles, news, followed, schedules, nextId, inflight>>
         ELSE \* db.commit() raises outside any try block
              /\ resp' = Resp("delete_user", 500, "uncaught", o, user_id, 0, 0, 0)
              /\ UNCHANGED <<tables, nextId, inflight>>

-----------------------------------------------------------------------------
\* Circles router

create_circle(payload) ==
  /\ nextId.circle <= MaxCircles
  /\ \E o \in Outcomes :
       LET circle == [id |-> nextId.circle, name |-> strip(payload.name),
                     description |-> payload.description]
           out == CommitOutcome(o, CircleUnique(circles \cup {circle}))
       IN  IF out = "ok"
           THEN /\ circles' = circles \cup {circle}
                /\ nextId' = [nextId EXCEPT !.circle = @ + 1]
                /\ resp' = Resp("create_circle", 201, "none", "none", 0, 0, 0, circle.id)
                /\ UNCHANGED <<users, news, followed, schedules, inflight>>
           ELSE IF out = "integrity"
           THEN /\ resp' = Resp("create_circle", 409, "http", out, 0, 0, 0, 0)
                /\ UNCHANGED <<tables, nextId, inflight>>
           ELSE /\ resp' = Resp("create_circle", 400, "http", out, 0, 0, 0, 0)
                /\ UNCHANGED <<tables, nextId, inflight>>

\* model_dump(exclude_unset=True) applied to a row by setattr
apply_circle_update(row, payload) ==
  [id |-> row.id,
   name |-> IF payload.name # UnsetName THEN payload.name ELSE row.name,
   description |-> IF payload.description # Unset THEN payload.description
                   ELSE row.description]

update_circle(circle_id, payload) ==
    LET found == db_get(circles, circle_id) IN
    IF found = {}
    THEN /\ resp' = Resp("update_circle", 404, "http", "none", circle_id, 0, 0, 0)
         /\ UNCHANGED <<tables, nextId, inflight>>
    ELSE \E o \in Outcomes :
         LET row == CHOOSE c \in found : TRUE
             updated == apply_circle_update(row, payload)
             out == CommitOutcome(o, CircleUnique((circles \ {row}) \cup {updated}))
         IN  IF out = "ok"
             THEN /\ circles' = (circles \ {row}) \cup {updated}
                  /\ resp' = Resp("update_circle", 200, "none", "none", circle_id, 0, 0, 0)
                  /\ UNCHANGED <<users, news, followed, schedules, nextId, inflight>>
             ELSE IF out = "integrity"
             THEN /\ resp' = Resp("update_circle", 409, "http", out, circle_id, 0, 0, 0)
                  /\ UNCHANGED <<tables, nextId, inflight>>
             ELSE /\ resp' = Resp("update_circle", 500, "http", out, circle_id, 0, 0, 0)
                  /\ UNCHANGED <<tables, nextId, inflight>>

delete_circle(circle_id) ==
    LET found == db_get(circles, circle_id) IN
    IF found = {}
    THEN /\ resp' = Resp("delete_circle", 404, "http", "none", circle_id, 0, 0, 0)
         /\ UNCHANGED <<tables, nextId, inflight>>
    ELSE \E o \in Outcomes :
         LET out == CommitOutcome(o, NewsCircleFK(news, circles \ found))
         IN  IF out = "ok"
             THEN /\ circles' = circles \ found
                  /\ resp' = Resp("delete_circle", 204, "none", "none", circle_id, 0, 0, 0)
                  /\ UNCHANGED <<users, news, followed, schedules, nextId, inflight>>
             ELSE /\ resp' = Resp("delete_circle", 400, "http", out, circle_id, 0, 0, 0)
                  /\ UNCHANGED <<tables, nextId, inflight>>

-----------------------------------------------------------------------------
\* CircleNews router

_ensure_circle_exists(circle_id) == \E c \in circles : c.id = circle_id

\* the path/body comparison left out
circle_id_mismatch_never(circle_id, payload) == FALSE

\* step 0 of create_news: path and body must name the same circle
circle_id_mismatch(circle_id, payload) == circle_id # payload.circle_id

\* the CircleNews row built from the payload
news_row(id, payload) ==
  [id |-> id, circle_id |-> payload.circle_id, title |-> payload.title,
   date |-> payload.date, content |-> payload.content,
   has_photo |-> payload.has_photo, photo_url |-> payload.photo_url]

\* the where clause left out: every Followed row counts as a follower
follower_ids_all(circle_id) == followed

\* select(Followed.user_id).where(Followed.circle_id == ...): one entry per
\* Followed row, kept here as the rows themselves
follower_ids(circle_id) == {f \in followed : f.circle_id = circle_id}

\* news.content or None
content_or_none(content) == IF content = "" \/ content = None THEN None ELSE content

\* one UserSchedule per follower entry, ids handed out in Followed.id order
schedules_to_add(row, followers, first) ==
  { [id |-> first + Cardinality({g \in followers : g.id < f.id}),
     user_id |-> f.user_id, circlenews_id |-> row.id, title |-> row.title,
     start_at |-> row.date, end_at |-> row.date,
     memo |-> content_or_none(row.content)] : f \in followers }

\* db.commit(): what the session holds becomes what is persisted
commit(persisted, session) == session

\* a rollback that loses only the fan-out rows: the flushed news row stays
rollback_keeps_news(persisted, session) == <<session[1], persisted[2]>>

\* db.rollback(): what the session holds is dropped
rollback(persisted, session) == persisted

create_news(circle_id, payload) ==
  IF circle_id_mismatch(circle_id, payload)
  THEN /\ resp' = Resp("create_news", 400, "http", "none", circle_id, payload.circle_id, 0, 0)
       /\ UNCHANGED <<tables, nextId, inflight>>
  ELSE \E fo \in Outcomes :
    LET row == news_row(nextId.news, payload)
        flushed == CommitOutcome(fo, NewsCircleFK(news \cup {row}, circles))
        followers == follower_ids(row.circle_id)
        toadd == schedules_to_add(row, followers, nextId.schedule)
        persisted == <<news, schedules>>
        session == <<news \cup {row}, schedules \cup toadd>>
    IN  IF flushed # "ok"
        THEN \* db.flush() raises outside the try block; the session is closed
             \* with nothing committed
             /\ resp' = Resp("create_news", 500, "uncaught", flushed,
                             circle_id, payload.circle_id, 0, 0)
             /\ UNCHANGED <<tables, nextId, inflight>>
        ELSE \E co \in Outcomes :
             IF co = "ok"
             THEN /\ nextId.news <= MaxNews
                  /\ nextId.schedule + Cardinality(followers) <= MaxSchedules + 1
                  /\ news' = commit(persisted, session)[1]
                  /\ schedules' = commit(persisted, session)[2]
                  /\ nextId' = [nextId EXCEPT !.news = @ + 1,
                                              !.schedule = @ + Cardinality(followers)]
                  /\ resp' = Resp("create_news", 201, "none", "none",
                                  circle_id, payload.circle_id, 0, row.id)
                  /\ UNCHANGED <<users, circles, followed, inflight>>
             ELSE /\ news' = rollback(persisted, session)[1]
                  /\ schedules' = rollback(persisted, session)[2]
                  /\ resp' = Resp("create_news", IF co = "integrity" THEN 409 ELSE 500, "http", co,
                                  circle_id, payload.circle_id, 0, 0)
                  /\ UNCHANGED <<users, circles, followed, nextId, inflight>>

\* select(CircleNews).where(circle_id == ..., id == ...)
select_news(circle_id, news_id) ==
  {n \in news : n.circle_id = circle_id /\ n.id = news_id}

update_circle_news(circle_id, news_id, payload) ==
    LET found == select_news(circle_id, news_id) IN
    IF ~_ensure_circle_exists(circle_id) \/ found = {}
    THEN /\ resp' = Resp("update_circle_news", 404, "http", "none", news_id, circle_id, 0, 0)
         /\ UNCHANGED <<tables, nextId, inflight>>
    ELSE \E o \in Outcomes :
         LET row == CHOOSE n \in found : TRUE
             updated == [row EXCEPT !.title = payload.title, !.content = payload.content,
                                    !.date = payload.date, !.has_photo = payload.has_photo]
         IN  IF o = "ok"
             THEN /\ news' = (news \ {row}) \cup {updated}
                  /\ resp' = Resp("update_circle_news", 200, "none", "none", news_id, circle_id, 0, 0)
                  /\ UNCHANGED <<users, circles, followed, schedules, nextId, inflight>>
             ELSE /\ resp' = Resp("update_circle_news", 400, "http", o, news_id, circle_id, 0, 0)
                  /\ UNCHANGED <<tables, nextId, inflight>>

\* a delete that takes the item's fan-out rows with it
delete_circle_news_with_schedules(circle_id, news_id) ==
    LET found == select_news(circle_id, news_id) IN
    IF ~_ensure_circle_exists(circle_id) \/ found = {}
    THEN /\ resp' = Resp("delete_circle_news", 404, "http", "none", news_id, circle_id, 0, 0)
         /\ UNCHANGED <<tables, nextId, inflight>>
    ELSE \E o \in Outcomes :
         IF o = "ok"
    THEN /\ news' = news \ found
         /\ schedules' = {sch \in schedules : sch.circlenews_id # news_id}
         /\ resp' = Resp("delete_circle_news", 204, "none", "none", news_id, circle_id, 0, 0)
         /\ UNCHANGED <<users, circles, followed, nextId, inflight>>
    ELSE /\ resp' = Resp("delete_circle_news", 400, "http", o, news_id, circle_id, 0, 0)
         /\ UNCHANGED <<tables, nextId, inflight>>

delete_circle_news(circle_id, news_id) ==
    LET found == select_news(circle_id, news_id) IN
    IF ~_ensure_circle_exists(circle_id) \/ found = {}
    THEN /\ resp' = Resp("delete_circle_news", 404, "http", "none", news_id, circle_id, 0, 0)
         /\ UNCHANGED <<tables, nextId, inflight>>
    ELSE \E o \in Outcomes :
         IF o = "ok"
    THEN /\ news' = news \ found
         /\ resp' = Resp("delete_circle_news", 204, "none", "none", news_id, circle_id, 0, 0)
         /\ UNCHANGED <<users, circles, followed, schedules, nextId, inflight>>
    ELSE /\ resp' = Resp("delete_circle_news", 400, "http", o, news_id, circle_id, 0, 0)
         /\ UNCHANGED <<tables, nextId, inflight>>

-----------------------------------------------------------------------------
\* Followed router

\* the payload's user_id kept as the client sent it
followed_user_id_payload(current_user, payload) == payload.user_id

\* data["user_id"] = current_user.id: the acting user replaces the payload's
followed_user_id(current_user, payload) == current_user.id

\* the lookup matching on the user alone with the wrong circle column
select_followed_by_id(user_id, circle_id) ==
  {f \in followed : f.user_id = user_id /\ f.id = circle_id}

\* select(Followed.id).where(user_id == ..., circle_id == ...)
select_followed(user_id, circle_id) ==
  {f \in followed : f.user_id = user_id /\ f.circle_id = circle_id}

\* the Followed row built from the payload
followed_row(id, current_user, payload) ==
  [id |-> id, user_id |-> followed_user_id(current_user, payload),
   circle_id |-> payload.circle_id]

\* create_Followed served alone: the lookups, the insert and the commit
create_Followed(current_user, payload) ==
  LET dup == select_followed(current_user.id, payload.circle_id)
      row == followed_row(nextId.followed, current_user, payload)
  IN  IF ~_ensure_circle_exists(payload.circle_id)
      THEN /\ resp' = Resp("create_Followed", 404, "http", "none",
                           payload.circle_id, payload.user_id, current_user.id, 0)
           /\ UNCHANGED <<tables, nextId, inflight>>
      ELSE IF Cardinality(dup) > 1
      THEN \* scalar_one_or_none() raises MultipleResultsFound
           /\ resp' = Resp("create_Followed", 500, "uncaught", "none",
                           payload.circle_id, payload.user_id, current_user.id, 0)
           /\ UNCHANGED <<tables, nextId, inflight>>
      ELSE IF dup # {}
      THEN /\ resp' = Resp("create_Followed", 409, "http", "none",
                           payload.circle_id, payload.user_id, current_user.id, 0)
           /\ UNCHANGED <<tables, nextId, inflight>>
      ELSE \E o \in Outcomes :
           LET out == CommitOutcome(o, FollowedConstraints(followed \cup {row})) IN
           IF out = "ok"
           THEN /\ nextId.followed <= MaxFollowed
                /\ followed' = followed \cup {row}
                /\ nextId' = [nextId EXCEPT !.followed = @ + 1]
                /\ resp' = Resp("create_Followed", 200, "none", "none",
                                payload.circle_id, payload.user_id, current_user.id, row.id)
                /\ UNCHANGED <<users, circles, news, schedules, inflight>>
           ELSE /\ resp' = Resp("create_Followed", IF out = "integrity" THEN 409 ELSE 400,
                                "http", out,
                                payload.circle_id, payload.user_id, current_user.id, 0)
                /\ UNCHANGED <<tables, nextId, inflight>>

delete_Followed(current_user, circle_id) ==
  LET found == select_followed(current_user.id, circle_id) IN
  IF found = {}
  THEN /\ resp' = Resp("delete_Followed", 404, "http", "none", circle_id, 0, current_user.id, 0)
       /\ UNCHANGED <<tables, nextId, inflight>>
  ELSE IF Cardinality(found) > 1
  THEN \* scalar_one_or_none() raises MultipleResultsFound
       /\ resp' = Resp("delete_Followed", 500, "uncaught", "none", circle_id, 0, current_user.id, 0)
       /\ UNCHANGED <<tables, nextId, inflight>>
  ELSE \E o \in Outcomes :
       IF o = "ok"
       THEN /\ followed' = followed \ found
            /\ resp' = Resp("delete_Followed", 204, "none", "none", circle_id, 0, current_user.id, 0)
            /\ UNCHANGED <<users, circles, news, schedules, nextId, inflight>>
       ELSE \* db.commit() raises outside any try block
            /\ resp' = Resp("delete_Followed", 500, "uncaught", o, circle_id, 0, current_user.id, 0)
            /\ UNCHANGED <<tables, nextId, inflight>>

\* create_Followed served concurrently, first round trips: the circle lookup
\* and the duplicate lookup; the request then holds the row it will insert
create_Followed_check(slot, current_user, payload) ==
  /\ inflight[slot] = Idle
  /\ LET dup == select_followed(current_user.id, payload.circle_id)
         row == followed_row(0, current_user, payload)
     IN  IF ~_ensure_circle_exists(payload.circle_id)
         THEN /\ resp' = Resp("create_Followed", 404, "http", "none",
                              payload.circle_id, payload.user_id, current_user.id, 0)
              /\ UNCHANGED <<tables, nextId, inflight>>
         ELSE IF Cardinality(dup) > 1
         THEN /\ resp' = Resp("create_Followed", 500, "uncaught", "none",
                              payload.circle_id, payload.user_id, current_user.id, 0)
              /\ UNCHANGED <<tables, nextId, inflight>>
         ELSE IF dup # {}
         THEN /\ resp' = Resp("create_Followed", 409, "http", "none",
                              payload.circle_id, payload.user_id, current_user.id, 0)
              /\ UNCHANGED <<tables, nextId, inflight>>
         ELSE /\ inflight' = [inflight EXCEPT ![slot] =
                                [user_id |-> row.user_id, circle_id |-> row.circle_id]]
              /\ resp' = Resp("create_Followed_check", 0, "none", "none",
                              payload.circle_id, payload.user_id, current_user.id, 0)
              /\ UNCHANGED <<tables, nextId>>

\* create_Followed served concurrently, last round trip: db.add and db.commit
create_Followed_commit(slot) ==
  /\ inflight[slot] # Idle
  /\ nextId.followed <= MaxFollowed
  /\ \E o \in Outcomes :
       LET row == [id |-> nextId.followed, user_id |-> inflight[slot].user_id,
                   circle_id |-> inflight[slot].circle_id]
           out == CommitOutcome(o, FollowedConstraints(followed \cup {row}))
       IN  /\ inflight' = [inflight EXCEPT ![slot] = Idle]
           /\ IF out = "ok"
              THEN /\ followed' = followed \cup {row}
                   /\ nextId' = [nextId EXCEPT !.followed = @ + 1]
                   /\ resp' = Resp("create_Followed", 200, "none", "none",
                                   row.circle_id, 0, row.user_id, row.id)
                   /\ UNCHANGED <<users, circles, news, schedules>>
              ELSE /\ resp' = Resp("create_Followed", IF out = "integrity" THEN 409 ELSE 400, "http", out,
                                   row.circle_id, 0, row.user_id, 0)
                   /\ UNCHANGED <<tables, nextId>>

-----------------------------------------------------------------------------
\* The whole backend, requests served one at a time, from the empty database.
Next ==
  \/ \E p \in UserCreatePayloads : create_user(p)
  \/ \E id \in UserIds, p \in UserUpdatePayloads : update_user(id, p)
  \/ \E id \in UserIds : delete_user(id)
  \/ \E p \in CircleCreatePayloads : create_circle(p)
  \/ \E id \in CircleIds, p \in CircleUpdatePayloads : update_circle(id, p)
  \/ \E id \in CircleIds : delete_circle(id)
  \/ \E c \in CircleIds, p \in CircleNewsCreatePayloads : create_news(c, p)
  \/ \E c \in CircleIds, n \in NewsIds, p \in CircleNewsCreatePayloads : update_circle_news(c, n, p)
  \/ \E c \in CircleIds, n \in NewsIds : delete_circle_news(c, n)
  \/ \E u \in users, p \in FollowedCreatePayloads : create_Followed(u, p)
  \/ \E u \in users, c \in CircleIds : delete_Followed(u, c)

Spec == Init /\ [][Next]_vars

\* The routers write disjoint tables (Users: users; Circles: circles;
\* CircleNews: news and schedules; Followed: followed), so the properties are
\* stated over the sub-systems below, each made of the handlers that write or
\* read the tables a property is about.

\* The Users, Circles and CircleNews routers (nobody follows anything).
NextCrud ==
  \/ \E p \in UserCreatePayloads : create_user(p)
  \/ \E id \in UserIds, p \in UserUpdatePayloads : update_user(id, p)
  \/ \E id \in UserIds : delete_user(id)
  \/ \E p \in CircleCreatePayloads : create_circle(p)
  \/ \E id \in CircleIds, p \in CircleUpdatePayloads : update_circle(id, p)
  \/ \E id \in CircleIds : delete_circle(id)
  \/ \E c \in CircleIds, p \in CircleNewsCreatePayloads : create_news(c, p)
  \/ \E c \in CircleIds, n \in NewsIds, p \in CircleNewsCreatePayloads : update_circle_news(c, n, p)
  \/ \E c \in CircleIds, n \in NewsIds : delete_circle_news(c, n)

SpecCrud == Init /\ [][NextCrud]_vars

\* The life cycle of User, Circle and CircleNews rows: every handler that
\* creates or deletes one, and the news update.
NextLife ==
  \/ \E p \in UserCreatePayloads : create_user(p)
  \/ \E id \in UserIds : delete_user(id)
  \/ \E p \in CircleCreatePayloads : create_circle(p)
  \/ \E id \in CircleIds : delete_circle(id)
  \/ \E c \in CircleIds, p \in CircleNewsCreatePayloads : create_news(c, p)
  \/ \E c \in CircleIds, n \in NewsIds, p \in CircleNewsCreatePayloads : update_circle_news(c, n, p)
  \/ \E c \in CircleIds, n \in NewsIds : delete_circle_news(c, n)

SpecLife == Init /\ [][NextLife]_vars

\* A database in which the users of UserCreatePayloads have registered.
InitRegistered ==
  /\ users = { [id |-> 1, name |-> "ann", email |-> "e1", login_id |-> "login1",
                login_pass |-> hash_pw(1)],
               [id |-> 2, name |-> "bob", email |-> "e2", login_id |-> "login2",
                login_pass |-> hash_pw(2)] }
  /\ circles = {}
  /\ news = {}
  /\ followed = {}
  /\ schedules = {}
  /\ nextId = [user |-> 3, circle |-> 1, news |-> 1, followed |-> 1, schedule |-> 1]
  /\ inflight = [s \in Slots |-> Idle]
  /\ resp = Resp("none", 0, "none", "none", 0, 0, 0, 0)

\* Following and unfollowing, requests served one at a time.
NextFollow ==
  \/ \E p \in CircleCreatePayloads : create_circle(p)
  \/ \E u \in users, p \in FollowedCreatePayloads : create_Followed(u, p)
  \/ \E u \in users, c \in CircleIds : delete_Followed(u, c)

SpecFollow == InitRegistered /\ [][NextFollow]_vars

\* Following and the news fan-out, requests served one at a time.
NextFanout ==
  \/ \E p \in CircleCreatePayloads : create_circle(p)
  \/ \E u \in users, p \in FollowedCreatePayloads : create_Followed(u, p)
  \/ \E c \in CircleIds, p \in CircleNewsCreatePayloads : create_news(c, p)

SpecFanout == InitRegistered /\ [][NextFanout]_vars

\* Following with create_Followed requests served concurrently.
NextRace ==
  \/ \E p \in CircleCreatePayloads : create_circle(p)
  \/ \E s \in Slots, u \in users, p \in FollowedCreatePayloads : create_Followed_check(s, u, p)
  \/ \E s \in Slots : create_Followed_commit(s)
  \/ \E u \in users, c \in CircleIds : delete_Followed(u, c)

SpecRace == InitRegistered /\ [][NextRace]_vars

\* A database in which the registered users have founded two circles.
InitClubs ==
  /\ users = { [id |-> 1, name |-> "ann", email |-> "e1", login_id |-> "login1",
                login_pass |-> hash_pw(1)],
               [id |-> 2, name |-> "bob", email |-> "e2", login_id |-> "login2",
                login_pass |-> hash_pw(2)] }
  /\ circles = { [id |-> 1, name |-> <<"a">>, description |-> None],
                 [id |-> 2, name |-> <<"b">>, description |-> None] }
  /\ news = {}
  /\ followed = {}
  /\ schedules = {}
  /\ nextId = [user |-> 3, circle |-> 3, news |-> 1, followed |-> 1, schedule |-> 1]
  /\ inflight = [s \in Slots |-> Idle]
  /\ resp = Resp("none", 0, "none", "none", 0, 0, 0, 0)

\* the bodies news items are posted with, and the bodies they are edited to
NewsPostPayloads == {p \in CircleNewsCreatePayloads : p.title = "t1"}

NewsEditPayloads == {p \in CircleNewsCreatePayloads : p.title = "t2"}

\* Following, unfollowing and the whole life of a news item, requests served
\* one at a time: users follow on their own behalf, news bodies name the
\* circle of the path.
NextSched ==
  \/ \E u \in users, c \in CircleIds :
       create_Followed(u, [user_id |-> u.id, circle_id |-> c])
  \/ \E u \in users, c \in CircleIds : delete_Followed(u, c)
  \/ \E p \in NewsPostPayloads : create_news(p.circle_id, p)
  \/ \E n \in NewsIds, p \in NewsEditPayloads : update_circle_news(p.circle_id, n, p)
  \/ \E c \in CircleIds, n \in NewsIds : delete_circle_news(c, n)

SpecSched == InitClubs /\ [][NextSched]_vars

-----------------------------------------------------------------------------
\* Properties

\* the Followed rows of a table for one (user, circle) pair / one circle
RowsOfPair(fs, user_id, circle_id) ==
  {f \in fs : f.user_id = user_id /\ f.circle_id = circle_id}

RowsOfCircle(fs, circle_id) == {f \in fs : f.circle_id = circle_id}

\* C1: a create_news that succeeds for a circle with N Followed rows adds
\* exactly one CircleNews row and exactly N UserSchedule rows, one per
\* follower user_id, each carrying the new news id, the news title and
\* start_at = end_at = the news date; with N = 0 only the news row is added.
C1_FanOutPerFollower ==
  [][ (resp'.op = "create_news" /\ resp'.status = 201) =>
        LET fol == RowsOfCircle(followed, resp'.id)
            addedNews == news' \ news
            added == schedules' \ schedules
        IN  /\ news \subseteq news'
            /\ schedules \subseteq schedules'
            /\ Cardinality(addedNews) = 1
            /\ Cardinality(added) = Cardinality(fol)
            /\ \A n \in addedNews :
                 /\ n.id = resp'.new
                 /\ n.circle_id = resp'.id
                 /\ \A sch \in added :
                      /\ sch.circlenews_id = n.id
                      /\ sch.title = n.title
                      /\ sch.start_at = n.date
                      /\ sch.end_at = n.date
            /\ \A u \in UserIds :
                 Cardinality({sch \in added : sch.user_id = u})
                   = Cardinality({f \in fol : f.user_id = u})
            /\ (fol = {} => schedules' = schedules) ]_vars

\* C1 witness: a news item was just created for a circle with two followers
\* and both got their schedule row.
C1_Witness ==
  /\ resp.op = "create_news"
  /\ resp.status = 201
  /\ Cardinality(RowsOfCircle(followed, resp.id)) = 2
  /\ Cardinality({sch \in schedules : sch.circlenews_id = resp.new}) = 2

\* C2: create_news is all-or-nothing: a create_news request either persists
\* the news row together with every fan-out row, or leaves both tables as
\* they were; when a flush or commit fails nothing of the request is kept.
C2_AllOrNothing ==
  [][ resp'.op = "create_news" =>
        /\ \/ /\ news' = news
              /\ schedules' = schedules
           \/ /\ resp'.status = 201
              /\ \E n \in news' \ news :
                   /\ n.id = resp'.new
                   /\ Cardinality({sch \in schedules' \ schedules : sch.circlenews_id = n.id})
                        = Cardinality(RowsOfCircle(followed, n.circle_id))
        /\ (resp'.fail # "none" =>
              /\ news' = news
              /\ schedules' = schedules
              /\ ~ \E n \in news' : n.id = nextId.news) ]_vars

\* C2 witness: the commit of a create_news for a followed circle failed after
\* the news row had been flushed, and no news row was kept.
C2_Witness ==
  /\ resp.op = "create_news"
  /\ resp.exc = "http"
  /\ resp.fail \in {"integrity", "error"}
  /\ RowsOfCircle(followed, resp.id) # {}
  /\ \E c \in circles : c.id = resp.id
  /\ news = {}

\* C3: create_news called with a path circle_id different from the body
\* circle_id answers 400 and leaves CircleNews and UserSchedule untouched.
C3_MismatchRejected ==
  [][ (resp'.op = "create_news" /\ resp'.id # resp'.id2) =>
        /\ resp'.status = 400
        /\ resp'.exc = "http"
        /\ news' = news
        /\ schedules' = schedules ]_vars

\* C3 witness: a mismatching create_news was answered 400 although the body's
\* circle exists and has a follower.
C3_Witness ==
  /\ resp.op = "create_news"
  /\ resp.status = 400
  /\ resp.id # resp.id2
  /\ \E c \in circles : c.id = resp.id2
  /\ RowsOfCircle(followed, resp.id2) # {}

\* C4: with requests served one after the other, a create_Followed by a user
\* who already follows the existing circle answers 409 and exactly one
\* Followed row exists for that (user_id, circle_id) pair afterwards; the
\* first, successful call leaves exactly one such row too.
C4_SecondFollowConflicts ==
  [][ (resp'.op = "create_Followed" /\ (\E c \in circles : c.id = resp'.id)) =>
        /\ (RowsOfPair(followed, resp'.user, resp'.id) # {} =>
              /\ resp'.status = 409
              /\ resp'.fail = "none"
              /\ Cardinality(RowsOfPair(followed', resp'.user, resp'.id)) = 1)
        /\ (resp'.status = 200 =>
              Cardinality(RowsOfPair(followed', resp'.user, resp'.id)) = 1) ]_vars

\* C4 witness: a second create_Followed was answered 409 by the duplicate
\* lookup and the pair has its one row.
C4_Witness ==
  /\ resp.op = "create_Followed"
  /\ resp.status = 409
  /\ resp.fail = "none"
  /\ Cardinality(RowsOfPair(followed, resp.user, resp.id)) = 1

\* C7: create_Followed inserts a row for the acting user whatever user_id the
\* payload carries; delete_Followed removes only the acting user's row for
\* the given circle, leaves every other user's rows as they were, and
\* answers 404 when the acting user has no such row.
C7_ActingUserOnly ==
  [][ /\ (resp'.op = "create_Followed" /\ resp'.status = 200) =>
           /\ followed \subseteq followed'
           /\ Cardinality(followed' \ followed) = 1
           /\ \A f \in followed' \ followed :
                f.user_id = resp'.user /\ f.circle_id = resp'.id /\ f.id = resp'.new
      /\ resp'.op = "delete_Followed" =>
           /\ followed' \subseteq followed
           /\ \A f \in followed \ followed' :
                f.user_id = resp'.user /\ f.circle_id = resp'.id
           /\ {f \in followed' : f.user_id # resp'.user}
                = {f \in followed : f.user_id # resp'.user}
           /\ (resp'.status = 204 =>
                 RowsOfPair(followed', resp'.user, resp'.id) = {})
           /\ (RowsOfPair(followed, resp'.user, resp'.id) = {} =>
                 resp'.status = 404 /\ followed' = followed) ]_vars

\* C7 witness: a create_Followed whose payload named another user succeeded
\* and the row belongs to the acting user.
C7_Witness ==
  /\ resp.op = "create_Followed"
  /\ resp.status = 200
  /\ resp.id2 # resp.user
  /\ \E f \in followed : f.id = resp.new /\ f.user_id = resp.user

\* C5: there is at most one Followed row for each (user_id, circle_id) pair
\* in every reachable state, also when create_Followed requests are served
\* concurrently.
C5_AtMostOneFollowedPerPair ==
  \A f, g \in followed :
    (f.user_id = g.user_id /\ f.circle_id = g.circle_id) => f.id = g.id

\* C6: delete_user, delete_circle and delete_circle_news called with an id
\* that matches no row answer 404 and leave every table unchanged.
C6_DeleteMissingNotFound ==
  [][ ( \/ /\ resp'.op = "delete_user"
           /\ ~ \E u \in users : u.id = resp'.id
        \/ /\ resp'.op = "delete_circle"
           /\ ~ \E c \in circles : c.id = resp'.id
        \/ /\ resp'.op = "delete_circle_news"
           /\ \/ ~ \E n \in news : n.id = resp'.id
              \/ ~ \E c \in circles : c.id = resp'.id2 )
      => /\ resp'.status = 404
         /\ resp'.exc = "http"
         /\ tables' = tables ]_vars

\* C6 witness: a delete_user for an id that matches no user was answered 404
\* while users, circles and news all hold rows.
C6_Witness ==
  /\ resp.op = "delete_user"
  /\ resp.status = 404
  /\ ~ \E u \in users : u.id = resp.id
  /\ users # {}
  /\ circles # {}
  /\ news # {}

\* C8: update_user, update_circle and update_circle_news answer 404 for an
\* unknown id, and answer 409 and leave the stored rows unchanged when the
\* commit raises a uniqueness (integrity) violation.
C8_UpdateNotFoundOrConflict ==
  [][ /\ ( \/ /\ resp'.op = "update_user"
              /\ ~ \E u \in users : u.id = resp'.id
           \/ /\ resp'.op = "update_circle"
              /\ ~ \E c \in circles : c.id = resp'.id
           \/ /\ resp'.op = "update_circle_news"
              /\ ~ \E n \in news : n.id = resp'.id )
         => resp'.status = 404
      /\ ( /\ resp'.op \in {"update_user", "update_circle", "update_circle_news"}
           /\ resp'.fail = "integrity" )
         => (resp'.status = 409 /\ tables' = tables) ]_vars

\* C9: in every write handler a persistence failure, at flush or at commit,
\* is caught inside the handler and answered with a structured error; none
\* escapes the handler uncaught.
C9_FailuresCaught ==
  resp.fail # "none" => (resp.exc = "http" /\ resp.status >= 400)

C11_SchedulesOnlyByCreateNews ==
  [][ /\ (schedules' # schedules =>
             (resp'.op = "create_news" /\ resp'.status = 201))
      /\ (resp'.op \in {"update_circle_news", "delete_circle_news",
                         "create_Followed", "delete_Followed"} =>
             schedules' = schedules)
      /\ ((resp'.op = "create_Followed" /\ resp'.status = 200) =>
             \A n \in news' :
               (n.circle_id = resp'.id
                  /\ ~ \E sch \in schedules :
                         sch.user_id = resp'.user /\ sch.circlenews_id = n.id)
               => ~ \E sch \in schedules' :
                       sch.user_id = resp'.user /\ sch.circlenews_id = n.id)
      /\ ((resp'.op = "delete_Followed" /\ resp'.status = 204) =>
             {sch \in schedules' : sch.user_id = resp'.user}
               = {sch \in schedules : sch.user_id = resp'.user}) ]_vars

\* C11 witness: a user who got a schedule row for a circle's news item has
\* just unfollowed the circle and the row is still there.
C11_Witness ==
  /\ resp.op = "delete_Followed"
  /\ resp.status = 204
  /\ RowsOfPair(followed, resp.user, resp.id) = {}
  /\ \E n \in news : /\ n.circle_id = resp.id
                      /\ \E sch \in schedules :
                           sch.user_id = resp.user /\ sch.circlenews_id = n.id

\* C12: a successful update overwrites only the fields the payload supplies.
\* After update_user or update_circle every field absent from the payload
\* keeps its previous value and every supplied field holds the supplied
\* value (login_pass the hash of it), the other rows are left alone, and an
\* update_user with an empty payload changes nothing; after
\* update_circle_news every payload field, photo_url included, is stored
\* while id and circle_id are unchanged.
C12_UpdateOverwritesSupplied ==
  [][ /\ \A id \in UserIds, p \in UserUpdatePayloads :
           (update_user(id, p) /\ resp'.status = 200) =>
             /\ \A u \in users : u.id # id => u \in users'
             /\ \A u \in users : u.id = id =>
                  \E v \in users' :
                    /\ v.id = id
                    /\ v.name = (IF p.name = Unset THEN u.name ELSE p.name)
                    /\ v.email = (IF p.email = Unset THEN u.email ELSE p.email)
                    /\ v.login_id = (IF p.login_id = Unset THEN u.login_id ELSE p.login_id)
                    /\ v.login_pass = (IF p.login_pass = UnsetPass THEN u.login_pass
                                       ELSE hash_pw(p.login_pass))
             /\ Cardinality(users') = Cardinality(users)
             /\ ((p.name = Unset /\ p.email = Unset /\ p.login_id = Unset
                   /\ p.login_pass = UnsetPass) => users' = users)
      /\ \A id \in CircleIds, p \in CircleUpdatePayloads :
           (update_circle(id, p) /\ resp'.status = 200) =>
             /\ \A c \in circles : c.id # id => c \in circles'
             /\ \A c \in circles : c.id = id =>
                  \E v \in circles' :
                    /\ v.id = id
                    /\ v.name = (IF p.name = UnsetName THEN c.name ELSE p.name)
                    /\ v.description = (IF p.description = Unset THEN c.description
                                        ELSE p.description)
             /\ Cardinality(circles') = Cardinality(circles)
      /\ \A cid \in CircleIds, nid \in NewsIds, p \in CircleNewsCreatePayloads :
           (update_circle_news(cid, nid, p) /\ resp'.status = 200) =>
             /\ \A n \in news : n.id # nid => n \in news'
             /\ \A n \in news : n.id = nid =>
                  \E v \in news' :
                    /\ v.id = nid
                    /\ v.circle_id = n.circle_id
                    /\ v.title = p.title
                    /\ v.date = p.date
                    /\ v.content = p.content
                    /\ v.has_photo = p.has_photo
                    /\ v.photo_url = p.photo_url
             /\ Cardinality(news') = Cardinality(news) ]_vars

====
